---- MODULE Spec2Model ----
(***************************************************************************)
(* Exam-paper management and MCQ grading backend                           *)
(* (maheshkmp/chemistry-partner-fastapi).                                  *)
(*                                                                         *)
(* The model covers the relational rows the grading logic works on         *)
(* (papers, mcq_answers, paper_submissions, users.is_admin), the request   *)
(* handlers that read or write them, and the scoring loops as pure         *)
(* operators.  An answer-key upload is a database transaction of its own   *)
(* session: a DELETE statement, the pending INSERTs and the COMMIT are     *)
(* separate steps, so that two uploads can interleave the way PostgreSQL   *)
(* lets them at its default READ COMMITTED isolation.                      *)
(***************************************************************************)
EXTENDS Integers, Sequences, FiniteSets

(***************************************************************************)
(* Bounds of the model.                                                    *)
(***************************************************************************)
MaxQ == 2        \* question numbers 1..MaxQ
MaxOpt == 2      \* option indices 1..MaxOpt
MaxRows == 2     \* rows of an uploaded answer sheet
MaxAns == 2      \* entries of a submitted answer list
MaxUsers == 2    \* registered users 1..MaxUsers
MaxPapers == 2   \* papers.id values handed out
MaxSubs == 2     \* rows of paper_submissions
MaxMarks == 1    \* marks values a client sends, 0..MaxMarks

VARIABLES
    is_admin,           \* users.is_admin, per user id
    papers,             \* ids of the rows of table papers
    paper_seq,          \* last id handed out by papers.id (serial)
    mcq_answers,        \* committed rows of table mcq_answers, per paper_id, in id order
    paper_submissions,  \* committed rows of table paper_submissions, in id order
    tx,                 \* per database session: the open upload transaction
    option_column,      \* type of column mcq_answers.correct_option in this deployment
    response,           \* route and status of the last answered submit request
    sc_key,             \* scoring functions on their own: the answer-key rows,
    sc_answers,         \*   the submitted answers,
    sc_result           \*   and the result of the last scoring call

sysvars == <<is_admin, papers, paper_seq, mcq_answers, paper_submissions, tx>>
scvars == <<sc_key, sc_answers, sc_result>>
vars == <<is_admin, papers, paper_seq, mcq_answers, paper_submissions, tx,
          option_column, response, sc_key, sc_answers, sc_result>>

(***************************************************************************)
(* Program constants.                                                      *)
(***************************************************************************)
FixedDenominator == 50        \* papers.py: (total_correct / 50) * 100
DefaultTotalQuestions == 50   \* SubmissionResult.total_questions: int = 50

Questions == 1..MaxQ
Options == 1..MaxOpt

SeqsUpTo(S, n) == UNION {[1..k -> S] : k \in 0..n}

Min(a, b) == IF a <= b THEN a ELSE b

(***************************************************************************)
(* Option values keep their Python type: the integer n and the             *)
(* one-character string that spells n are different values, and == between *)
(* them is False.                                                          *)
(***************************************************************************)
OptInt(n) == [t |-> "int", v |-> n]
OptStr(n) == [t |-> "str", v |-> n]
NoneOpt == [t |-> "none", v |-> 0]

\* What a client can send as selected_option (a dict value, untyped JSON).
SubmitOptions == {OptInt(n) : n \in Options} \cup {OptStr(n) : n \in Options}

\* The option an encoded value denotes: the canonical integer index.
Denote(o) == o.v

(***************************************************************************)
(* correct_option as it is read back from the column it was written to.    *)
(* models.py declares the column String(1) and main.py creates the tables  *)
(* from it: the int bound by the upload is stored as text and read back as *)
(* a str.  The migration and the app/ package declare the column Integer.  *)
(* Which of the two created the table is a fact of the deployment.         *)
(***************************************************************************)
ColumnTypes == {"String", "Integer"}

StringColumn(n) == OptStr(n)
IntegerColumn(n) == OptInt(n)
StoreOption(column, n) ==
    IF column = "String" THEN StringColumn(n) ELSE IntegerColumn(n)

\* The mcq_answers rows an upload can leave in a table with that column.
KeyRows(column) == [question_number : Questions,
                    correct_option : {StoreOption(column, n) : n \in Options}]

\* One submitted answer: {question_number, selected_option}.
AnswerEntries == [question_number : Questions, selected_option : SubmitOptions]

(***************************************************************************)
(* The scoring loops.                                                      *)
(***************************************************************************)
\* correct_dict = {ans.question_number: ans.correct_option for ans in rows}:
\* a later row of the same question_number overwrites an earlier one.
LastIndex(rows, q) ==
    CHOOSE i \in DOMAIN rows :
        /\ rows[i].question_number = q
        /\ \A j \in DOMAIN rows : rows[j].question_number = q => j <= i

CorrectDict(rows) ==
    [q \in {rows[i].question_number : i \in DOMAIN rows} |->
        rows[LastIndex(rows, q)].correct_option]

\* A loop that counts an answer to a question the key does not hold.
IsCorrectMissing(cd, answer) ==
    answer.question_number \in DOMAIN cd =>
        cd[answer.question_number] = answer.selected_option

\* answer['question_number'] in correct_dict and
\* correct_dict[answer['question_number']] == answer['selected_option']
IsCorrect(cd, answer) ==
    /\ answer.question_number \in DOMAIN cd
    /\ cd[answer.question_number] = answer.selected_option

TotalCorrect(cd, answers) ==
    Cardinality({i \in DOMAIN answers : IsCorrect(cd, answers[i])})

\* correct_dict.get(question_number)
DictGet(cd, q) == IF q \in DOMAIN cd THEN cd[q] ELSE NoneOpt

\* score_percentage is kept as the exact fraction num / den.
Percentage(total_correct, den) == [num |-> total_correct * 100, den |-> den]

\* main.check_user_answers, lines 626-652, for a non-empty key.
CheckUserAnswersResult(rows, answers) ==
    LET cd == CorrectDict(rows)
        tc == TotalCorrect(cd, answers)
    IN [status |-> 200,
        total_questions |-> Len(rows),
        total_correct |-> tc,
        score_percentage |-> Percentage(tc, Len(rows)),
        detailed_results |->
            [i \in DOMAIN answers |->
                [question_number |-> answers[i].question_number,
                 selected_option |-> answers[i].selected_option,
                 correct_option |-> DictGet(cd, answers[i].question_number),
                 is_correct |-> IsCorrect(cd, answers[i])]]]

\* app/routers/papers.submit_paper, lines 138-153, for a non-empty key.
\* The request schema gives the answers as plain dicts, and the loop reads
\* answer.question_number: an AttributeError on the first entry, so only an
\* empty answer list gets past the loop.
SubmissionResult(rows, answers) ==
    IF answers # <<>> THEN [status |-> 500]
    ELSE [status |-> 200,
          total_correct |-> 0,
          total_questions |-> DefaultTotalQuestions,
          score_percentage |-> Percentage(0, FixedDenominator)]

\* app/routers/papers.get_paper_results, lines 102-122: the result entry of
\* one submission whose answers are the given list of entries.
PaperResultEntry(rows, answers) ==
    LET tc == TotalCorrect(CorrectDict(rows), answers)
    IN [status |-> 200,
        total_correct |-> tc,
        score_percentage |-> Percentage(tc, FixedDenominator)]

\* int(user_answers[str(mcq.question_number)]): both 1 and "1" give the int 1.
PyInt(o) == OptInt(o.v)

\* utils.check_answers, lines 20-27.  user_answers is the decoded dict
\* (question number -> submitted value).  The questions table is written by
\* no handler, so the loop over regular questions adds nothing.
CheckAnswersMarks(rows, user_answers) ==
    Cardinality({i \in DOMAIN rows :
        /\ rows[i].question_number \in DOMAIN user_answers
        /\ PyInt(user_answers[rows[i].question_number]) = rows[i].correct_option})

\* A submitted answer list read as a dict: defined when no question repeats.
IsDict(answers) ==
    \A i, j \in DOMAIN answers :
        answers[i].question_number = answers[j].question_number => i = j

AsDict(answers) ==
    [q \in {answers[i].question_number : i \in DOMAIN answers} |->
        answers[CHOOSE i \in DOMAIN answers :
                    answers[i].question_number = q].selected_option]

(***************************************************************************)
(* The scoring functions on their own: the initial state draws an answer   *)
(* key (the rows one upload leaves, possibly none) and the answers of one  *)
(* submission as the list of {question_number, selected_option} entries    *)
(* the loops index; each action applies one scoring path to them, and the  *)
(* key can be replaced between two calls.                                  *)
(***************************************************************************)
ScoreKeys(column) == SeqsUpTo(KeyRows(column), MaxRows)
ScoreAnswers == SeqsUpTo(AnswerEntries, MaxAns)

\* A result: the scoring path, the key rows it read and what it returned.
NoResult == [op |-> "none", key |-> <<>>, out |-> [status |-> 0]]

\* main.check_user_answers, from the key lookup on (lines 618-652), for a
\* submission whose answers are a list of entries.
ScoreCheckUserAnswers ==
    /\ sc_result' = [op |-> "check_user_answers", key |-> sc_key,
                     out |-> IF sc_key = <<>>
                             THEN [status |-> 404]
                             ELSE CheckUserAnswersResult(sc_key, sc_answers)]
    /\ UNCHANGED <<sysvars, option_column, response, sc_key, sc_answers>>

\* app/routers/papers.submit_paper (lines 133-153).
ScoreSubmitPaper ==
    /\ sc_result' = [op |-> "submit_paper", key |-> sc_key,
                     out |-> IF sc_key = <<>>
                             THEN [status |-> 404]
                             ELSE SubmissionResult(sc_key, sc_answers)]
    /\ UNCHANGED <<sysvars, option_column, response, sc_key, sc_answers>>

\* app/routers/papers.get_paper_results for one submission (lines 102-122).
ScoreGetPaperResults ==
    /\ sc_result' = [op |-> "get_paper_results", key |-> sc_key,
                     out |-> PaperResultEntry(sc_key, sc_answers)]
    /\ UNCHANGED <<sysvars, option_column, response, sc_key, sc_answers>>

\* An upload commits between two scoring calls: the key rows are replaced.
ScoreKeyReplaced ==
    /\ sc_key' \in ScoreKeys(option_column) \ {sc_key}
    /\ UNCHANGED <<sysvars, option_column, response, sc_answers, sc_result>>

\* utils.check_answers as routes.submit_paper calls it: answers is a dict.
ScoreCheckAnswers ==
    /\ IsDict(sc_answers)
    /\ sc_result' = [op |-> "check_answers", key |-> sc_key,
                     out |-> [status |-> 200,
                              total_marks |->
                                  CheckAnswersMarks(sc_key, AsDict(sc_answers))]]
    /\ UNCHANGED <<sysvars, option_column, response, sc_key, sc_answers>>


(***************************************************************************)
(* Rows, requests and uploaded files.                                      *)
(***************************************************************************)
Users == 1..MaxUsers
PaperIds == 1..MaxPapers
Sessions == {"s1", "s2"}

NullId == 0   \* a NULL foreign key

\* A spreadsheet cell: a number, or text that int() rejects.
IntCell(n) == [t |-> "int", v |-> n]
TextCell == [t |-> "text", v |-> 0]

\* Sheet rows with question numbers up to maxq.
SheetRows(maxq) ==
    [question_number : {IntCell(n) : n \in 1..maxq} \cup {TextCell},
     correct_option : {IntCell(n) : n \in Options} \cup {TextCell}]

\* An uploaded file: not an .xlsx/.xls name, a sheet without the two
\* required columns, or a sheet with both columns and its rows.
NotExcel == [kind |-> "not_excel", rows |-> <<>>]
NoColumns == [kind |-> "no_columns", rows |-> <<>>]
Sheets(maxq, maxrows) ==
    {[kind |-> "sheet", rows |-> r] : r \in SeqsUpTo(SheetRows(maxq), maxrows)}
Files(maxq, maxrows) == {NotExcel, NoColumns} \cup Sheets(maxq, maxrows)

\* int(row['question_number']) and int(row['correct_option']) both succeed.
RowConverts(row) == row.question_number.t = "int" /\ row.correct_option.t = "int"

AllConvert(rows) == \A i \in DOMAIN rows : RowConverts(rows[i])

\* MCQAnswer(question_number=int(..), correct_option=int(..)) for every row,
\* as the rows read back after the flush.
NewAnswers(column, rows) ==
    [i \in DOMAIN rows |->
        [question_number |-> rows[i].question_number.v,
         correct_option |-> StoreOption(column, rows[i].correct_option.v)]]

\* paper_submissions.answers: NULL, or the submitted entries.
NullAnswers == [null |-> TRUE, v |-> <<>>]
Answers(entries) == [null |-> FALSE, v |-> entries]

\* The answers dict of a routes.submit_paper request, as its entries in key
\* order, over the question numbers up to maxq.
SubmittedDicts(maxq) ==
    {a \in SeqsUpTo([question_number : 1..maxq, selected_option : SubmitOptions],
                    maxq) :
        \A i, j \in DOMAIN a :
            i < j => a[i].question_number < a[j].question_number}

(***************************************************************************)
(* Rows of a table are held in id order; a position stands for the row's   *)
(* id.  Removing rows renumbers the positions that sessions remember.      *)
(***************************************************************************)
Renumber(S, removed) ==
    {i - Cardinality({j \in removed : j < i}) : i \in S \ removed}

RemoveAt(seq, removed) ==
    LET kept == DOMAIN seq \ removed
    IN [k \in 1..Cardinality(kept) |->
           seq[CHOOSE i \in kept : Cardinality({j \in kept : j <= i}) = k]]

(***************************************************************************)
(* The upload transaction of a session.                                    *)
(*   pc      "idle", "delete" (DELETE issued), "commit" (rows deleted, new *)
(*           rows pending), "done" (handler returned)                      *)
(*   snap    the rows the DELETE statement's snapshot saw                  *)
(*   del     the rows this transaction deleted and holds locked            *)
(*   new     the MCQAnswer objects the row loop builds from the sheet      *)
(*   raises  whether int() rejects a row of the sheet                      *)
(*   status  the response status, once the handler returned                *)
(*   ndel    once the handler returned: how many rows its DELETE removed   *)
(***************************************************************************)
IdleTx == [pc |-> "idle", paper_id |-> NullId, snap |-> {}, del |-> {},
           new |-> <<>>, raises |-> FALSE, status |-> 0, ndel |-> 0]

Returned(status, ndel) ==
    [pc |-> "done", paper_id |-> NullId, snap |-> {}, del |-> {},
     new |-> <<>>, raises |-> FALSE, status |-> status, ndel |-> ndel]

\* The handler returned 200: the paper and the rows it stored stay on record
\* until the session's next request.
Committed(paper_id, new, ndel) ==
    [pc |-> "done", paper_id |-> paper_id, snap |-> {}, del |-> {},
     new |-> new, raises |-> FALSE, status |-> 200, ndel |-> ndel]

InFlight(t) == tx[t].pc \in {"delete", "commit"}

\* Positions of paper p's rows that some other open transaction has deleted.
LockedBy(others, p) ==
    UNION {tx[t].del : t \in {x \in others : InFlight(x) /\ tx[x].paper_id = p}}

\* The rows of paper p removed from the committed table, seen by the other
\* sessions: their remembered positions are renumbered.
OthersAfterRemoval(s, p, removed) ==
    [t \in Sessions |->
        IF t # s /\ InFlight(t) /\ tx[t].paper_id = p
        THEN [tx[t] EXCEPT !.snap = Renumber(@, removed),
                           !.del = Renumber(@, removed)]
        ELSE tx[t]]

\* A session without transactions: every DELETE is final when it is issued.
LostOnRollbackAll(del) == del
\* db.rollback(): of the rows the transaction deleted, those that stay deleted.
LostOnRollback(del) == {}

\* A commit whose DELETE did not take effect.
CommitMerges(old, del, new) == old \o new
\* db.commit(): the table rows of the paper after the transaction's DELETE
\* and INSERTs take effect.
CommitRows(old, del, new) == RemoveAt(old, del) \o new


\* A read that sees the DELETEs open transactions have not committed.
QueryAnswersDirty(keys, p) == RemoveAt(keys[p], LockedBy(Sessions, p))
\* db.query(MCQAnswer).filter(MCQAnswer.paper_id == p).all() in a session of
\* its own (SessionLocal, autocommit=False): one SELECT, which reads the
\* committed rows; what open transactions deleted or added is not visible.
QueryAnswers(keys, p) == keys[p]

(***************************************************************************)
(* Answer-key upload: main.upload_mcq_answers and, with the same body,     *)
(* app/routers/papers.upload_answers_excel.                                *)
(***************************************************************************)
\* The handler up to and including the DELETE statement (lines 559-585).
\* The sheet is in memory by then, so what the row loop will make of it is
\* already decided: the rows to add, or a row that int() rejects.
upload_begin(s, u, p, file) ==
    /\ tx[s].pc \in {"idle", "done"}
    /\ tx' = [tx EXCEPT ![s] =
                IF ~is_admin[u] THEN Returned(403, 0)
                ELSE IF file.kind = "not_excel" THEN Returned(400, 0)
                ELSE IF file.kind = "no_columns" THEN Returned(400, 0)
                ELSE [IdleTx EXCEPT
                        !.pc = "delete", !.paper_id = p,
                        !.snap = DOMAIN mcq_answers[p],
                        !.raises = ~AllConvert(file.rows),
                        !.new = IF AllConvert(file.rows)
                                THEN NewAnswers(option_column, file.rows)
                                ELSE <<>>]]
    /\ UNCHANGED <<is_admin, papers, paper_seq, mcq_answers, paper_submissions,
                   option_column, response, scvars>>

\* The DELETE takes effect inside the transaction once no row it saw is
\* locked by another transaction; then the row loop runs (lines 587-594).
\* A row that int() rejects raises: except -> db.rollback() -> 400.
upload_delete(s) ==
    /\ tx[s].pc = "delete"
    /\ LET p == tx[s].paper_id
           del == tx[s].snap
       IN /\ del \cap LockedBy(Sessions \ {s}, p) = {}
          /\ IF ~tx[s].raises
             THEN /\ tx' = [tx EXCEPT ![s] = [@ EXCEPT !.pc = "commit", !.del = del]]
                  /\ UNCHANGED mcq_answers
             ELSE LET lost == LostOnRollback(del)
                  IN /\ mcq_answers' = [mcq_answers EXCEPT ![p] = RemoveAt(@, lost)]
                     /\ tx' = [OthersAfterRemoval(s, p, lost) EXCEPT ![s] =
                                 Returned(400, Cardinality(del))]
    /\ UNCHANGED <<is_admin, papers, paper_seq, paper_submissions,
                   option_column, response, scvars>>

\* db.commit() (line 596): the pending rows are flushed and the transaction
\* commits.  An INSERT for a paper_id without a papers row violates the
\* foreign key: except -> db.rollback() -> 400.
upload_commit(s) ==
    /\ tx[s].pc = "commit"
    /\ LET p == tx[s].paper_id
           del == tx[s].del
           new == tx[s].new
       IN IF new # <<>> /\ p \notin papers
          THEN LET lost == LostOnRollback(del)
               IN /\ mcq_answers' = [mcq_answers EXCEPT ![p] = RemoveAt(@, lost)]
                  /\ tx' = [OthersAfterRemoval(s, p, lost) EXCEPT ![s] =
                              Returned(400, Cardinality(del))]
          ELSE /\ mcq_answers' = [mcq_answers EXCEPT ![p] = CommitRows(@, del, new)]
               /\ tx' = [OthersAfterRemoval(s, p, del) EXCEPT ![s] =
                           Committed(p, new, Cardinality(del))]
    /\ UNCHANGED <<is_admin, papers, paper_seq, paper_submissions,
                   option_column, response, scvars>>

(***************************************************************************)
(* Papers.  The response of a one-step handler is a function of the tables *)
(* and the request: each handler has an operator for its status.           *)
(***************************************************************************)
NoFile == [kind |-> "none", rows |-> <<>>]
PdfFiles == {"none", "valid", "invalid"}

\* main.create_paper after the papers row is committed (lines 263-323):
\* the response status and the mcq_answers rows the call commits.
CreatePaperOutcome(column, pdf, mcq) ==
    IF pdf = "invalid" THEN [status |-> 400, rows |-> <<>>]
    ELSE IF mcq.kind = "none" THEN [status |-> 200, rows |-> <<>>]
    ELSE IF mcq.kind = "not_excel" THEN [status |-> 400, rows |-> <<>>]
    ELSE IF mcq.kind = "no_columns" THEN [status |-> 400, rows |-> <<>>]
    ELSE IF ~AllConvert(mcq.rows) THEN [status |-> 400, rows |-> <<>>]
    ELSE [status |-> 200, rows |-> NewAnswers(column, mcq.rows)]

create_paper(u, pdf, mcq) ==
    IF ~is_admin[u]
    THEN UNCHANGED vars
    ELSE /\ paper_seq < MaxPapers
         /\ LET id == paper_seq + 1
                out == CreatePaperOutcome(option_column, pdf, mcq)
            IN /\ paper_seq' = id
               /\ papers' = papers \cup {id}
               /\ mcq_answers' = [mcq_answers EXCEPT ![id] = out.rows]
         /\ UNCHANGED <<is_admin, paper_submissions, tx, option_column, response, scvars>>

\* main.update_paper: title, description, duration, total_marks and the PDF
\* of the paper; none of them is read by the grading logic.
UpdatePaperStatus(u, p) ==
    IF ~is_admin[u] THEN 403 ELSE IF p \notin papers THEN 404 ELSE 200

update_paper(u, p) ==
    /\ UpdatePaperStatus(u, p) \in {200, 403, 404}
    /\ UNCHANGED vars

\* db.delete(paper) on the paper_submissions rows: the relationship has no
\* delete cascade, so the rows stay and their paper_id is set to NULL.
OrphanSubmissions(subs, p) ==
    [i \in DOMAIN subs |->
        IF subs[i].paper_id = p THEN [subs[i] EXCEPT !.paper_id = NullId]
        ELSE subs[i]]

\* A delete that does not ask who is calling.
DeletePaperStatusOpen(u, p) == IF p \notin papers THEN 404 ELSE 200

DeletePaperStatus(u, p) ==
    IF ~is_admin[u] THEN 403 ELSE IF p \notin papers THEN 404 ELSE 200

\* main.delete_paper.  mcq_answers is cascade="all, delete-orphan": its rows
\* are deleted with the paper, which waits for rows another session locked.
delete_paper(u, p) ==
    IF DeletePaperStatus(u, p) # 200
    THEN UNCHANGED vars
    ELSE /\ LockedBy(Sessions, p) = {}
         /\ papers' = papers \ {p}
         /\ mcq_answers' = [mcq_answers EXCEPT ![p] = <<>>]
         /\ tx' = OthersAfterRemoval("", p, DOMAIN mcq_answers[p])
         /\ paper_submissions' = OrphanSubmissions(paper_submissions, p)
         /\ UNCHANGED <<is_admin, paper_seq, option_column, response, scvars>>

\* main.set_admin_status: no caller identity is asked for.
set_admin_status(user_id) ==
    /\ is_admin' = [is_admin EXCEPT ![user_id] = TRUE]
    /\ UNCHANGED <<papers, paper_seq, mcq_answers, paper_submissions, tx,
                   option_column, response, scvars>>

(***************************************************************************)
(* Submissions.  A paper_submissions row: paper_id, user_id, marks and     *)
(* answers (time_spent and submitted_at are stored and never read by the   *)
(* grading logic; column score is assigned by no handler).                 *)
(***************************************************************************)
\* What the client of a submit route is told.
Response(route, status) == [route |-> route, status |-> status]
NoResponse == Response("", 0)

Submission(paper_id, user_id, marks, answers) ==
    [paper_id |-> paper_id, user_id |-> user_id, marks |-> marks,
     answers |-> answers]

\* A write that keeps one row per (paper, user): a resubmission overwrites.
AddSubmissionUpsert(subs, row) ==
    IF \E i \in DOMAIN subs :
          subs[i].paper_id = row.paper_id /\ subs[i].user_id = row.user_id
    THEN [i \in DOMAIN subs |->
            IF subs[i].paper_id = row.paper_id /\ subs[i].user_id = row.user_id
            THEN row ELSE subs[i]]
    ELSE Append(subs, row)
\* db.add(paper_submission); db.commit(): an INSERT of one new row.
AddSubmission(subs, row) == Append(subs, row)

MainSubmitStatus(p) == IF p \notin papers THEN 404 ELSE 200

\* main.submit_paper: marks is the value of the request body.
main_submit_paper(u, p, marks) ==
    IF MainSubmitStatus(p) # 200
    THEN /\ response' = Response("main.submit_paper", MainSubmitStatus(p))
         /\ UNCHANGED <<sysvars, option_column, scvars>>
    ELSE /\ Len(paper_submissions) < MaxSubs
         /\ response' = Response("main.submit_paper", 200)
         /\ paper_submissions' =
                AddSubmission(paper_submissions, Submission(p, u, marks, NullAnswers))
         /\ UNCHANGED <<is_admin, papers, paper_seq, mcq_answers, tx,
                        option_column, scvars>>

\* Without a papers row the INSERT violates the foreign key and the request
\* ends in an unhandled error.
RoutesSubmitStatus(p) == IF p \notin papers THEN 500 ELSE 200

\* routes.submit_paper: user_id is a request parameter; marks come from
\* utils.check_answers; the answers are stored as their JSON text, held here
\* as the entries it encodes.
routes_submit_paper(p, answers, user_id) ==
    IF RoutesSubmitStatus(p) # 200
    THEN /\ response' = Response("routes.submit_paper", RoutesSubmitStatus(p))
         /\ UNCHANGED <<sysvars, option_column, scvars>>
    ELSE /\ Len(paper_submissions) < MaxSubs
         /\ response' = Response("routes.submit_paper", 200)
         /\ LET total_marks == CheckAnswersMarks(QueryAnswers(mcq_answers, p),
                                                 AsDict(answers))
            IN paper_submissions' =
                   AddSubmission(paper_submissions,
                                 Submission(p, user_id, total_marks, Answers(answers)))
         /\ UNCHANGED <<is_admin, papers, paper_seq, mcq_answers, tx,
                        option_column, scvars>>

\* app/routers/papers.submit_paper on given tables: the response.
PapersSubmit(keys, p, answers) ==
    LET correct_answers == QueryAnswers(keys, p)
    IN IF correct_answers = <<>> THEN [status |-> 404]
       ELSE SubmissionResult(correct_answers, answers)

\* app/routers/papers.submit_paper: scores and returns; nothing is stored.
papers_submit_paper(u, p, answers) ==
    /\ response' = Response("papers.submit_paper",
                            PapersSubmit(mcq_answers, p, answers).status)
    /\ UNCHANGED <<sysvars, option_column, scvars>>

(***************************************************************************)
(* Result view.                                                            *)
(***************************************************************************)
\* .filter(paper_id == p).filter(user_id == u).first()
FirstSubmission(subs, u, p) ==
    LET found == {i \in DOMAIN subs : subs[i].paper_id = p /\ subs[i].user_id = u}
    IN IF found = {} THEN 0
       ELSE CHOOSE i \in found : \A j \in found : i <= j

\* main.check_user_answers on given tables: the response status.  The loop
\* iterates the stored answers column: NULL is not iterable, and the JSON
\* text routes.submit_paper stores yields characters, which cannot be
\* indexed by 'question_number'; both end the request in an unhandled error.
CheckUserAnswers(keys, subs, u, p) ==
    LET i == FirstSubmission(subs, u, p)
    IN IF i = 0 THEN [status |-> 404]
       ELSE IF keys[p] = <<>> THEN [status |-> 404]
       ELSE [status |-> 500]

check_user_answers(u, p) ==
    /\ CheckUserAnswers(mcq_answers, paper_submissions, u, p).status
          \in {404, 500}
    /\ UNCHANGED vars

(***************************************************************************)
(* Initial states and specifications.                                      *)
(***************************************************************************)
\* Empty tables; user 1 is the administrator, the others are students.
SysInit ==
    /\ is_admin = [u \in Users |-> u = 1]
    /\ papers = {}
    /\ paper_seq = 0
    /\ mcq_answers = [p \in PaperIds |-> <<>>]
    /\ paper_submissions = <<>>
    /\ tx = [s \in Sessions |-> IdleTx]
    /\ option_column \in ColumnTypes
    /\ response = NoResponse

Init ==
    /\ SysInit
    /\ sc_key = <<>>
    /\ sc_answers = <<>>
    /\ sc_result = NoResult

(***************************************************************************)
(* The requests of the running system, over given sets of inputs.          *)
(***************************************************************************)
UploadBegin(S, F) ==
    \E s \in S, u \in Users, p \in PaperIds, file \in F : upload_begin(s, u, p, file)
UploadDelete(S) == \E s \in S : upload_delete(s)
UploadCommit(S) == \E s \in S : upload_commit(s)
CreatePaper(F, cap) ==
    /\ paper_seq < cap
    /\ \E u \in Users, pdf \in PdfFiles, mcq \in F \cup {NoFile} :
          create_paper(u, pdf, mcq)
UpdatePaper == \E u \in Users, p \in PaperIds : update_paper(u, p)
DeletePaper == \E u \in Users, p \in PaperIds : delete_paper(u, p)
SetAdminStatus == \E user_id \in Users : set_admin_status(user_id)
MainSubmitPaper(U) ==
    \E u \in U, p \in PaperIds, marks \in 0..MaxMarks :
        main_submit_paper(u, p, marks)
RoutesSubmitPaper(D, U) ==
    \E p \in PaperIds, answers \in D, user_id \in U :
        routes_submit_paper(p, answers, user_id)
PapersSubmitPaper(A, U) ==
    \E u \in U, p \in PaperIds, answers \in A :
        papers_submit_paper(u, p, answers)
CheckUserAnswersView == \E u \in Users, p \in PaperIds : check_user_answers(u, p)

(***************************************************************************)
(* Spec: the submit handlers and the result view next to the               *)
(* administrator's operations on one paper; the uploads run in one session.*)
(***************************************************************************)
SubPapers == 1   \* papers created
SubQ == 1        \* question numbers of sheets and answer dicts
SubRows == 1     \* rows of a sheet

SubFiles == Files(SubQ, SubRows)

SubUploadBegin == UploadBegin({"s1"}, SubFiles)
SubUploadDelete == UploadDelete({"s1"})
SubUploadCommit == UploadCommit({"s1"})
SubCreatePaper == CreatePaper(SubFiles, SubPapers)
\* The submit requests come from one student.
SubUsers == {MaxUsers}
SubMainSubmitPaper == MainSubmitPaper(SubUsers)
SubRoutesSubmitPaper == RoutesSubmitPaper(SubmittedDicts(SubQ), SubUsers)
SubPapersSubmitPaper ==
    PapersSubmitPaper(SeqsUpTo([question_number : 1..SubQ,
                                selected_option : SubmitOptions], SubRows),
                      SubUsers)

Next ==
    \/ SubCreatePaper
    \/ UpdatePaper
    \/ DeletePaper
    \/ SubUploadBegin
    \/ SubUploadDelete
    \/ SubUploadCommit
    \/ SubMainSubmitPaper
    \/ SubRoutesSubmitPaper
    \/ SubPapersSubmitPaper
    \/ CheckUserAnswersView

Spec == Init /\ [][Next]_vars

(***************************************************************************)
(* SpecKey: the answer key store under two concurrent upload sessions.     *)
(***************************************************************************)
KeyPapers == 1   \* papers created
KeyQ == 1        \* question numbers of sheets
KeySheetRows == 1   \* rows of a sheet

KeyFiles == Files(KeyQ, KeySheetRows)

KeyUploadBegin == UploadBegin(Sessions, KeyFiles)
KeyUploadDelete == UploadDelete(Sessions)
KeyUploadCommit == UploadCommit(Sessions)
KeyCreatePaper == CreatePaper(KeyFiles, KeyPapers)

NextKey ==
    \/ KeyCreatePaper
    \/ DeletePaper
    \/ SetAdminStatus
    \/ KeyUploadBegin
    \/ KeyUploadDelete
    \/ KeyUploadCommit

SpecKey == Init /\ [][NextKey]_vars

(***************************************************************************)
(* SpecStore: the answer key store under one upload session, with sheets   *)
(* of every shape.                                                         *)
(***************************************************************************)
StorePapers == 1   \* papers created

StoreFiles == Files(MaxQ, MaxRows)

StoreUploadBegin == UploadBegin({"s1"}, StoreFiles)
StoreUploadDelete == UploadDelete({"s1"})
StoreUploadCommit == UploadCommit({"s1"})
StoreCreatePaper == CreatePaper(StoreFiles, StorePapers)

NextStore ==
    \/ StoreCreatePaper
    \/ DeletePaper
    \/ SetAdminStatus
    \/ StoreUploadBegin
    \/ StoreUploadDelete
    \/ StoreUploadCommit

SpecStore == Init /\ [][NextStore]_vars

(***************************************************************************)
(* SpecScore: the scoring functions on their own.                          *)
(***************************************************************************)
InitScore ==
    /\ SysInit
    /\ sc_key \in ScoreKeys(option_column)
    /\ sc_answers \in ScoreAnswers
    /\ sc_result = NoResult

NextScore ==
    \/ ScoreCheckUserAnswers
    \/ ScoreSubmitPaper
    \/ ScoreCheckAnswers
    \/ ScoreGetPaperResults
    \/ ScoreKeyReplaced

SpecScore == InitScore /\ [][NextScore]_vars



(***************************************************************************)
(* Properties of the scoring functions (SpecScore).                        *)
(***************************************************************************)
Scored(op) == sc_result.op = op /\ sc_result.out.status = 200

\* The submitted pair names a question of the key and denotes the option the
\* key stores for it, both read in the canonical encoding.
DenotesCorrect(rows, answer) ==
    LET cd == CorrectDict(rows)
    IN /\ answer.question_number \in DOMAIN cd
       /\ Denote(cd[answer.question_number]) = Denote(answer.selected_option)

DenotedCorrect(rows, answers) ==
    Cardinality({i \in DOMAIN answers : DenotesCorrect(rows, answers[i])})

UniqueQuestions(rows) ==
    \A i, j \in DOMAIN rows :
        rows[i].question_number = rows[j].question_number => i = j

\* C8: for every uploaded answer key and every submitted pair, the pair is
\* counted as correct if and only if its question_number is in the key and
\* its selected option denotes the stored correct option once both are in the
\* canonical encoding; the representation (integer or one-character string)
\* never makes a right answer count as wrong.
C8_CanonicalComparison ==
    /\ Scored("check_user_answers") =>
          \A i \in DOMAIN sc_answers :
              sc_result.out.detailed_results[i].is_correct
                  <=> DenotesCorrect(sc_result.key, sc_answers[i])
    /\ \A op \in {"submit_paper", "get_paper_results"} :
          Scored(op) =>
              sc_result.out.total_correct = DenotedCorrect(sc_result.key, sc_answers)
    /\ (Scored("check_answers") /\ UniqueQuestions(sc_result.key)) =>
          sc_result.out.total_marks = DenotedCorrect(sc_result.key, sc_answers)

\* C9: in every score result total_questions is the number of entries of the
\* answer key and score_percentage is 100 * total_correct / total_questions
\* with that denominator; a key question that was not answered counts as
\* incorrect and is no error.
C9_DenominatorIsKeySize ==
    \A op \in {"check_user_answers", "submit_paper"} :
        (sc_result.op = op /\ sc_result.key # <<>>) =>
            /\ sc_result.out.status = 200
            /\ sc_result.out.total_questions = Len(sc_result.key)
            /\ sc_result.out.score_percentage.num * Len(sc_result.key)
                  = 100 * sc_result.out.total_correct
                        * sc_result.out.score_percentage.den

\* C10: for every answer key K and every accepted submission S, also one
\* that lists a question_number more than once, total_correct is at most
\* min(len(S), len(K)).
C10_TotalCorrectBounded ==
    /\ \A op \in {"check_user_answers", "submit_paper", "get_paper_results"} :
          Scored(op) =>
              sc_result.out.total_correct <= Min(Len(sc_answers), Len(sc_result.key))
    /\ Scored("check_answers") =>
          sc_result.out.total_marks <= Min(Len(sc_answers), Len(sc_result.key))


\* C11: for every non-empty answer key and every submission the reported
\* score_percentage lies between 0 and 100; for an empty answer key no
\* scoring path ends in a division fault, and a result that is reported has
\* score_percentage 0.
C11_PercentageInRange ==
    \A op \in {"check_user_answers", "submit_paper", "get_paper_results"} :
        sc_result.op = op =>
            IF sc_result.key # <<>>
            THEN Scored(op) =>
                    /\ sc_result.out.score_percentage.den > 0
                    /\ sc_result.out.score_percentage.num >= 0
                    /\ sc_result.out.score_percentage.num
                          <= 100 * sc_result.out.score_percentage.den
            ELSE /\ sc_result.out.status # 500
                 /\ Scored(op) => sc_result.out.score_percentage.num = 0

\* The submitted entries whose question_number the key rows do not hold.
UnknownEntries(rows, answers) ==
    {i \in DOMAIN answers :
        answers[i].question_number \notin DOMAIN CorrectDict(rows)}

ReadAgain(op) ==
    /\ sc_result.op = op /\ sc_result.out.status = 200
    /\ sc_result'.op = op /\ sc_result'.out.status = 200

\* C4: results are a point-in-time snapshot: the total_correct and the
\* score_percentage that check_user_answers and get_paper_results report for
\* a submission are the same whenever they are read, before and after a
\* replacement of the paper's answer key.
C4_ResultsAreSnapshot ==
    [][\A op \in {"check_user_answers", "get_paper_results"} :
          ReadAgain(op) =>
              /\ sc_result'.out.total_correct = sc_result.out.total_correct
              /\ sc_result'.out.score_percentage.num * sc_result.out.score_percentage.den
                    = sc_result.out.score_percentage.num * sc_result'.out.score_percentage.den]_vars

(***************************************************************************)
(* Properties of the answer key store (SpecStore, SpecKey).                *)
(***************************************************************************)
\* Session s's upload ends in this step with a rollback and status 400.
UploadFails(s) ==
    /\ InFlight(s)
    /\ tx'[s].pc = "done"
    /\ tx'[s].status = 400

\* C1: replacing an answer key is atomic on failure: when an upload fails on
\* a row after it deleted the existing entries, the stored answer key of
\* every paper is what it was before the failing step: no entry is removed
\* and none of the new entries is added.
C1_FailedUploadKeepsKey ==
    [][\A s \in Sessions : UploadFails(s) => mcq_answers' = mcq_answers]_vars

\* An upload failed on a row after deleting entries, and the entries are
\* still stored.
C1_Witness ==
    \E s \in Sessions, p \in papers :
        /\ tx[s].pc = "done"
        /\ tx[s].status = 400
        /\ tx[s].ndel > 0
        /\ Len(mcq_answers[p]) = tx[s].ndel

\* Both sessions' last uploads committed, to the same paper.
BothCommitted(a, b, p) ==
    /\ a # b
    /\ tx[a].pc = "done" /\ tx[a].status = 200 /\ tx[a].paper_id = p
    /\ tx[b].pc = "done" /\ tx[b].status = 200 /\ tx[b].paper_id = p

\* C2: for two uploads A and B to the same paper that run concurrently, once
\* both have committed the stored answer key of the paper is exactly the
\* entry set of A or exactly the entry set of B, never entries of both.
C2_NoInterleavedMerge ==
    \A a, b \in Sessions, p \in papers :
        BothCommitted(a, b, p) =>
            mcq_answers[p] \in {tx[a].new, tx[b].new}


\* C13: in every reachable state, after any sequence of paper creations with
\* an answer sheet, answer-key uploads and paper deletions, the answer key of
\* each paper holds at most one entry per question_number.
C13_OneEntryPerQuestion ==
    \A p \in PaperIds : UniqueQuestions(mcq_answers[p])

\* The batch of rows an upload is about to store breaks a rule of the answer
\* key: a non-positive question_number, a question_number that occurs twice,
\* or a correct_option outside the option domain.
InvalidBatch(rows) ==
    \/ \E i \in DOMAIN rows : rows[i].question_number <= 0
    \/ ~UniqueQuestions(rows)
    \/ \E i \in DOMAIN rows : Denote(rows[i].correct_option) \notin Options

\* C14: an answer-key upload whose batch contains a non-positive
\* question_number, a question_number that occurs twice, or a correct_option
\* outside the option domain is rejected with a validation error (status 400),
\* and the stored answer keys are left as they were.
C14_InvalidBatchRejected ==
    [][\A s \in Sessions :
          (InFlight(s) /\ InvalidBatch(tx[s].new) /\ tx'[s].pc = "done")
              => (tx'[s].status = 400 /\ mcq_answers' = mcq_answers)]_vars

\* Session s's upload commits in this step and answers 200.
UploadCommits(s) ==
    /\ tx[s].pc = "commit"
    /\ tx'[s].pc = "done"
    /\ tx'[s].status = 200

\* C15: answer-key replacement is idempotent: when the stored key of a paper
\* is the entry list E that an upload left, an upload of E that follows it
\* (its DELETE saw the stored key) leaves the same stored key, entry by entry
\* and with the same number of entries.
C15_ReplacementIdempotent ==
    [][\A s \in Sessions :
          (/\ UploadCommits(s)
           /\ mcq_answers[tx[s].paper_id] = tx[s].new
           /\ tx[s].del = DOMAIN mcq_answers[tx[s].paper_id])
              => mcq_answers'[tx[s].paper_id] = tx[s].new]_vars

\* An upload of a non-empty E committed after its DELETE removed as many rows
\* as E has, and the stored key is E.
C15_Witness ==
    \E s \in Sessions, p \in papers :
        /\ tx[s].pc = "done"
        /\ tx[s].status = 200
        /\ tx[s].paper_id = p
        /\ tx[s].new # <<>>
        /\ tx[s].ndel = Len(tx[s].new)
        /\ mcq_answers[p] = tx[s].new

\* This step is a request of caller u that can write answer-key entries:
\* an upload, a paper creation with or without an answer sheet, or a paper
\* deletion.
KeyRequestBy(u) ==
    \/ \E s \in Sessions, p \in PaperIds, file \in KeyFiles :
           upload_begin(s, u, p, file)
    \/ \E pdf \in PdfFiles, mcq \in KeyFiles \cup {NoFile} :
           create_paper(u, pdf, mcq)
    \/ \E p \in PaperIds : delete_paper(u, p)

\* C18: no answer-key upload, paper creation with an answer sheet, or paper
\* deletion issued by a caller whose is_admin flag is false at the time adds,
\* removes or alters an answer-key entry, or opens an upload transaction that
\* could do so later.
C18_KeyWrittenByAdminOnly ==
    [][\A u \in Users :
          (~is_admin[u] /\ KeyRequestBy(u))
              => /\ mcq_answers' = mcq_answers
                 /\ \A s \in Sessions : InFlight(s)' => InFlight(s)]_vars

\* A caller without the administrator flag was refused an upload while a
\* paper has a stored answer key.
C18_Witness ==
    /\ \E u \in Users : ~is_admin[u]
    /\ \E s \in Sessions : tx[s].pc = "done" /\ tx[s].status = 403
    /\ \E p \in papers : mcq_answers[p] # <<>>

\* C21: a user's administrator flag becomes true only through an action
\* performed by a caller who is already an administrator: a step that turns
\* the flag of a user from false to true is one of the requests that identify
\* their caller, issued by a caller whose own flag is true before the step.
C21_AdminGrantedByAdmin ==
    [][\A u \in Users :
          (~is_admin[u] /\ is_admin'[u])
              => \E caller \in Users : is_admin[caller] /\ KeyRequestBy(caller)]_vars

\* C20: create_paper with an answer sheet is all-or-nothing: when the PDF
\* check or a row of the sheet fails and the call returns an error, no paper
\* row and no answer-key entry of the call is stored; when the call succeeds,
\* the paper and one entry for every row of the sheet are stored.
C20_CreatePaperAllOrNothing ==
    [][\A u \in Users, pdf \in PdfFiles, mcq \in StoreFiles :
          (is_admin[u] /\ create_paper(u, pdf, mcq)) =>
              IF CreatePaperOutcome(option_column, pdf, mcq).status # 200
              THEN /\ papers' = papers
                   /\ mcq_answers' = mcq_answers
              ELSE /\ papers' = papers \cup {paper_seq'}
                   /\ Len(mcq_answers'[paper_seq']) = Len(mcq.rows)]_vars

(***************************************************************************)
(* Properties of the submit handlers (Spec).                               *)
(***************************************************************************)
\* The step inserts a row into paper_submissions.
RowAdded == Len(paper_submissions') > Len(paper_submissions)

\* The row the step inserted.
NewRow == paper_submissions'[Len(paper_submissions')]

\* The answers a stored row carries; main.submit_paper takes none.
SubmittedAnswers(row) == IF row.answers.null THEN <<>> ELSE row.answers.v

\* C3: submission immutability: once a submit operation has returned, no
\* later operation (a further submission, an answer-key upload, a paper
\* update or deletion, a result read) removes the stored row or changes its
\* stored marks or its stored answers.
C3_SubmissionImmutable ==
    [][\A i \in DOMAIN paper_submissions :
          /\ i \in DOMAIN paper_submissions'
          /\ paper_submissions'[i].marks = paper_submissions[i].marks
          /\ paper_submissions'[i].answers = paper_submissions[i].answers]_vars

\* A stored row keeps the marks it was given although the answer key of its
\* paper was replaced since and would give other marks now.
C3_Witness ==
    \E i \in DOMAIN paper_submissions :
        LET row == paper_submissions[i]
        IN /\ row.paper_id \in papers
           /\ ~row.answers.null
           /\ row.marks > CheckAnswersMarks(mcq_answers[row.paper_id],
                                            AsDict(row.answers.v))

\* C5: a submission to a paper that has no answer-key entries records no
\* submission row: every row is inserted while its paper has a non-empty
\* answer key.
C5_NoRowWithoutKey ==
    [][RowAdded => mcq_answers[NewRow.paper_id] # <<>>]_vars

\* A submit request is answered with success in this step.
SubmitSucceeds ==
    /\ response'.status = 200
    /\ response' # response \/ RowAdded

\* C6: every successful submit operation (main.submit_paper,
\* app/routers/papers.submit_paper, routes.submit_paper) adds exactly one
\* submission row, leaves every stored submission row in place and unaltered
\* and leaves the answer key of every paper unchanged.
C6_SubmitAddsOneRow ==
    [][SubmitSucceeds =>
          /\ Len(paper_submissions') = Len(paper_submissions) + 1
          /\ \A i \in DOMAIN paper_submissions :
                paper_submissions'[i] = paper_submissions[i]
          /\ mcq_answers' = mcq_answers]_vars

\* C7: the score stored with every submission row is derived by the system:
\* it is the number of submitted answers that match the answer key of the
\* paper as it stands when the row is recorded, whatever the client sends.
C7_StoredScoreIsDerived ==
    [][RowAdded =>
          NewRow.marks = DenotedCorrect(mcq_answers[NewRow.paper_id],
                                        SubmittedAnswers(NewRow))]_vars

\* The positions of the submission rows that belong to paper p.
RowsOfPaper(subs, p) == {i \in DOMAIN subs : subs[i].paper_id = p}

\* C16: deleting a paper removes every answer-key entry and every submission
\* row that belongs to it: after the delete the paper's key is empty and the
\* submission table is the old one without the paper's rows; the keys and the
\* rows of the other papers are as before.
C16_DeleteCascades ==
    [][\A p \in PaperIds :
          (p \in papers /\ p \notin papers')
              => /\ mcq_answers' = [mcq_answers EXCEPT ![p] = <<>>]
                 /\ paper_submissions' =
                        RemoveAt(paper_submissions,
                                 RowsOfPaper(paper_submissions, p))]_vars

\* This step is a submit request that names paper p, on one of the three
\* submit paths.
SubmitNames(p) ==
    \/ \E u \in SubUsers, marks \in 0..MaxMarks : main_submit_paper(u, p, marks)
    \/ \E answers \in SubmittedDicts(SubQ), user_id \in SubUsers :
           routes_submit_paper(p, answers, user_id)
    \/ \E u \in SubUsers, answers \in SeqsUpTo(AnswerEntries, SubRows) :
           papers_submit_paper(u, p, answers)

\* C17: a submission that names a paper id for which no paper exists fails
\* with a not-found error (status 404) and writes nothing, on every submit
\* path; a submission row that is added names a paper that exists.
C17_UnknownPaperNotFound ==
    [][/\ \A p \in PaperIds \ papers :
             SubmitNames(p) => /\ response'.status = 404
                               /\ paper_submissions' = paper_submissions
       /\ Len(paper_submissions') > Len(paper_submissions)
             => paper_submissions'[Len(paper_submissions')].paper_id \in papers]_vars

\* The whole keys a submission to paper p may be scored against while uploads
\* for p are in progress: the stored key, and the key an upload leaves when
\* it commits.
WholeKeys(p) ==
    {mcq_answers[p]} \cup
    {CommitRows(mcq_answers[p], tx[s].snap, tx[s].new) :
        s \in {t \in Sessions :
                  InFlight(t) /\ tx[t].paper_id = p /\ ~tx[t].raises}}

====
